---- MODULE Spec2Model ----
(***************************************************************************)
(* Curve NTT of ec-gpu: the CPU reference transforms serial_ec_fft and     *)
(* parallel_ec_fft (ec-gpu-proxy/src/ec_fft_cpu.rs), the exponentiation    *)
(* pow_vartime (ec-gpu-gen/src/lib.rs) and the batched GPU transform       *)
(* radix_fftg_many exercised by gpu-ark-tests/tests/fftg.rs.               *)
(*                                                                         *)
(* The scalar field G::Scalar is the prime field Z_P and the curve group   *)
(* G::Curve is the cyclic group of order P written additively, a scalar    *)
(* acting on a point by multiplication mod P.                              *)
(***************************************************************************)
EXTENDS Integers, Sequences, FiniteSets, TLC

\* ------------------------------------------------------------------ bounds
MaxLogN == 2        \* in-contract transforms have log_n in 0..MaxLogN
MaxCalls == 2       \* serial_ec_fft calls made in a row on one buffer
MaxBatch == 2       \* transforms in one radix_fftg_many call
MaxDevices == 2     \* GPU devices

\* ------------------------------------------------- field and group (Z_P)
P == 17
TWO_ADICITY == 4
TWO_ADIC_ROOT_OF_UNITY == 3
ONE == 1
ZERO == 0
U64Bits == 64
U32Bits == 32
TestLogThreadsEnd == 3

Scalars == 0..(P - 1)
Mul(x, y) == (x * y) % P
Add(x, y) == (x + y) % P
Sub(x, y) == (x - y) % P
Square(x) == Mul(x, x)

\* Mathematical exponentiation, the yardstick the claims are stated with.
RECURSIVE ModExp(_, _)
ModExp(x, e) == IF e = 0 THEN 1 ELSE Mul(x, ModExp(x, e - 1))

Pow2(k) == 2 ^ k

\* Bit i of a u64 limb; the limbs used here are below 2^31, so bits 31..63
\* are clear.
Bit(e, i) == IF i >= 31 THEN 0 ELSE (e \div Pow2(i)) % 2

\* One pass of the inner loop: res = res.square(); if bit i of e is set,
\* res.mul_assign(base).
PowStep(res, base, e, i) ==
    IF Bit(e, i) = 1 THEN Mul(Square(res), base) ELSE Square(res)

\* for i in (lo..hi).rev(): the passes for bits hi-1 down to lo, in that order.
\* (CHOOSE r \in {F(x) : x \in {e}} : TRUE is F(e) with e evaluated once; the
\* loops below are all written so.)
RECURSIVE PowBits(_, _, _, _, _)
PowBits(res, base, e, lo, hi) ==
    IF hi - lo = 1 THEN PowStep(res, base, e, lo)
    ELSE LET mid == (lo + hi) \div 2 IN
         CHOOSE r \in {PowBits(top, base, e, lo, mid) :
                          top \in {PowBits(res, base, e, mid, hi)}} : TRUE

PowLimb(res, base, e) == PowBits(res, base, e, 0, U64Bits)

\* for e in exp.iter().rev()
RECURSIVE PowLimbs(_, _, _, _)
PowLimbs(res, base, exp, k) ==
    IF k = 0 THEN res
    ELSE PowLimbs(PowLimb(res, base, exp[k]), base, exp, k - 1)

\* fn pow_vartime(base, exp): let mut res = F::ONE; the two loops; res
PowVartimeLoops(base, exp) == PowLimbs(ONE, base, exp, Len(exp))

\* The results of PowVartimeLoops on the one-limb exponents the transforms use,
\* computed once.
MaxExp == 4 * (2 ^ MaxLogN)
PowMemo == [base \in Scalars |-> [e \in 0..MaxExp |-> PowVartimeLoops(base, <<e>>)]]

pow_vartime(base, exp) ==
    IF Len(exp) = 1 /\ base \in Scalars /\ exp[1] \in 0..MaxExp
    THEN PowMemo[base][exp[1]]
    ELSE PowVartimeLoops(base, exp)

\* ---------------------------------------------------------------- buffers
\* A buffer is a function on 0..len-1, as a slice is indexed.
BufLen(b) == Cardinality(DOMAIN b)
Swap(b, i, j) == [b EXCEPT ![i] = b[j], ![j] = b[i]]

\* ------------------------------------------------------------ u32 values
\* A u32 is [hi = bit 31, lo = bits 0..30].
U32(x) == [hi |-> 0, lo |-> x]
\* (r << 1) | b on u32: bit 31 is shifted out.
ShlOr(r, b) == [hi |-> (r.lo \div Pow2(U32Bits - 2)) % 2,
                lo |-> 2 * (r.lo % Pow2(U32Bits - 2)) + b]
\* k < r for a k below 2^31
U32Lt(k, r) == r.hi = 1 \/ k < r.lo

\* fn bitreverse(mut n: u32, l: u32) -> u32
RECURSIVE BitReverseIter(_, _, _)
BitReverseIter(r, n, cnt) ==
    IF cnt = 0 THEN r
    ELSE CHOOSE out \in {BitReverseIter(nxt, n \div 2, cnt - 1) :
                             nxt \in {ShlOr(r, n % 2)}} : TRUE

bitreverse(n, l) == BitReverseIter(U32(0), n, l)

\* ---------------------------------------------------------- serial_ec_fft
Builds == {"debug", "release"}
Ok(b) == [panic |-> "", a |-> b]
Failed(kind, b) == [panic |-> kind, a |-> b]

\* let n = a.len() as u32; assert_eq!(n, 1 << log_n);
\* 1 << log_n on u32 panics in a build with overflow checks when log_n >= 32 and
\* shifts by log_n % 32 in a build without them.
SerialEntry(b, log_n, bld) ==
    IF bld = "debug" /\ log_n >= U32Bits THEN "overflow"
    ELSE IF log_n % U32Bits = U32Bits - 1 \/ BufLen(b) # Pow2(log_n % U32Bits)
         THEN "assert_len"
         ELSE ""

\* for k in 0..n { let rk = bitreverse(k, log_n); if k < rk { a.swap(rk, k) } }
RECURSIVE BitReverseLoop(_, _, _, _)
BitReverseLoop(b, k, n, log_n) ==
    IF k >= n THEN Ok(b)
    ELSE LET rk == bitreverse(k, log_n) IN
         IF U32Lt(k, rk)
         THEN IF rk.hi = 1 \/ rk.lo >= BufLen(b) THEN Failed("index", b)
              ELSE CHOOSE out \in {BitReverseLoop(nxt, k + 1, n, log_n) :
                                       nxt \in {Swap(b, rk.lo, k)}} : TRUE
         ELSE BitReverseLoop(b, k + 1, n, log_n)

BitReversePermute(b, log_n) == BitReverseLoop(b, 0, BufLen(b), log_n)

\* for j in 0..m: the butterfly on a[k+j] and a[k+j+m] with twiddle w
RECURSIVE ButterflyInnerAddsBoth(_, _, _, _, _, _)
ButterflyInnerAddsBoth(b, k, j, m, w, w_m) ==
    IF j >= m THEN Ok(b)
    ELSE IF k + j + m >= BufLen(b) THEN Failed("index", b)
    ELSE LET t == Mul(b[k + j + m], w)
             tmpv == Add(b[k + j], t)
             b1 == [b EXCEPT ![k + j + m] = tmpv]
             b2 == [b1 EXCEPT ![k + j] = Add(b1[k + j], t)]
         IN  CHOOSE out \in
                 {ButterflyInnerAddsBoth(nxt, k, j + 1, m, Mul(w, w_m), w_m) :
                     nxt \in {b2}} : TRUE

RECURSIVE ButterflyInner(_, _, _, _, _, _)
ButterflyInner(b, k, j, m, w, w_m) ==
    IF j >= m THEN Ok(b)
    ELSE IF k + j + m >= BufLen(b) THEN Failed("index", b)
    ELSE LET t == Mul(b[k + j + m], w)
             tmpv == Sub(b[k + j], t)
             b1 == [b EXCEPT ![k + j + m] = tmpv]
             b2 == [b1 EXCEPT ![k + j] = Add(b1[k + j], t)]
         IN  CHOOSE out \in {ButterflyInner(nxt, k, j + 1, m, Mul(w, w_m), w_m) :
                                 nxt \in {b2}} : TRUE

\* while k < n { ...; k += 2 * m }
RECURSIVE ButterflyBlocks(_, _, _, _, _)
ButterflyBlocks(b, k, n, m, w_m) ==
    IF k >= n THEN Ok(b)
    ELSE CHOOSE out \in
             {IF r.panic # "" THEN r ELSE ButterflyBlocks(r.a, k + 2 * m, n, m, w_m) :
                 r \in {ButterflyInner(b, k, 0, m, ONE, w_m)}} : TRUE

\* for _ in 0..log_n { w_m = omega^(n / (2m)); ...; m *= 2 }
RECURSIVE ButterflyRounds(_, _, _, _, _, _)
ButterflyRounds(b, round, log_n, n, m, omega) ==
    IF round >= log_n THEN Ok(b)
    ELSE LET w_m == pow_vartime(omega, <<n \div (2 * m)>>) IN
         CHOOSE out \in
             {IF r.panic # "" THEN r
              ELSE ButterflyRounds(r.a, round + 1, log_n, n, 2 * m, omega) :
                 r \in {ButterflyBlocks(b, 0, n, m, w_m)}} : TRUE

ButterfliesNoTwiddle(b, omega, log_n) ==
    ButterflyRounds(b, 0, log_n, BufLen(b), 1, ONE)

Butterflies(b, omega, log_n) == ButterflyRounds(b, 0, log_n, BufLen(b), 1, omega)

\* The whole of serial_ec_fft: the buffer it leaves and how it ended.
serial_ec_fft(b, omega, log_n, bld) ==
    LET e == SerialEntry(b, log_n, bld) IN
    IF e # "" THEN Failed(e, b)
    ELSE CHOOSE out \in
             {IF r.panic # "" THEN r ELSE Butterflies(r.a, omega, log_n) :
                 r \in {BitReversePermute(b, log_n)}} : TRUE

\* ----------------------------------------------------------------- inputs
RootsOfUnity(n) == {w \in 1..(P - 1) : ModExp(w, n) = 1}
IsPrimitiveRoot(w, n) ==
    ModExp(w, n) = 1 /\ \A d \in 1..(n - 1) : ModExp(w, d) # 1
Inverse(w) == CHOOSE v \in 1..(P - 1) : Mul(v, w) = 1

\* Buffers of length n: a point at e, alone or with twice that point in the next
\* place (cyclically), zero elsewhere.
Buffers(n) ==
    {[k \in 0..(n - 1) |-> IF k = e THEN 1 ELSE IF k = (e + d) % n THEN 2 ELSE 0] :
        e \in 0..(n - 1), d \in 0..1}
EmptyBuf == [k \in {} |-> 0]
MaxLen == Pow2(MaxLogN)
\* log_n values handed to serial_ec_fft: the in-contract ones, one past them, and
\* the ones at and past the width of u32.
SerialLogNs == (0..(MaxLogN + 1)) \cup {U32Bits + k : k \in 0..MaxLogN}

\* ------------------------------------------------------------------ state
VARIABLES
    pc,         \* where the calling thread is
    call,       \* the arguments of the call in progress
    a,          \* the caller's buffer
    a_in,       \* the buffer as it was when the call was entered
    panic,      \* how the call failed, "" while it has not
    hist,       \* the serial_ec_fft calls completed on this buffer
    new_omega,  \* parallel_ec_fft: omega^num_threads
    tmp,        \* parallel_ec_fft: the sub-buffers, <<>> before they are allocated
    task,       \* the tasks of the first scope, by j
    scat,       \* the tasks of the second scope, by chunk index
    gpu         \* radix_fftg_many: the batch and the devices

vars == <<pc, call, a, a_in, panic, hist, new_omega, tmp, task, scat, gpu>>
parVars == <<new_omega, tmp, task, scat>>

NoCall == [fn |-> "none"]
NoGpu == [k |-> 0, ins |-> <<>>, bufs |-> <<>>, log_ns |-> <<>>, omegas |-> <<>>,
          dev |-> <<>>]

Init ==
    /\ pc = "idle"
    /\ call = NoCall
    /\ a = EmptyBuf
    /\ a_in = EmptyBuf
    /\ panic = ""
    /\ hist = <<>>
    /\ new_omega = ONE
    /\ tmp = <<>>
    /\ task = <<>>
    /\ scat = <<>>
    /\ gpu = NoGpu

\* ------------------------------------------------- serial_ec_fft, by steps
\* Entry of serial_ec_fft(buf, omega, log_n): the length assertion, in a binary
\* built as bld.
EnterSerial(buf, omega, log_n, bld) ==
    LET e == SerialEntry(buf, log_n, bld) IN
    /\ call' = [fn |-> "serial", omega |-> omega, log_n |-> log_n, build |-> bld]
    /\ a' = buf
    /\ a_in' = buf
    /\ panic' = e
    /\ pc' = IF e = "" THEN "bitrev" ELSE "panic"
    /\ UNCHANGED <<hist, parVars, gpu>>

\* A first call, on a fresh buffer of any length.
CallSerial ==
    /\ pc = "idle"
    /\ \E len \in 1..MaxLen : \E buf \in Buffers(len) :
       \E log_n \in SerialLogNs : \E omega \in RootsOfUnity(MaxLen) :
       \E bld \in Builds :
          EnterSerial(buf, omega, log_n, bld)

\* A further call on the buffer the previous call left, with the same log_n.
CallSerialAgain ==
    /\ pc = "done"
    /\ call.fn = "serial"
    /\ Len(hist) < MaxCalls
    /\ \E omega \in RootsOfUnity(BufLen(a)) :
          EnterSerial(a, omega, call.log_n, call.build)

SerialBitReverse ==
    /\ pc = "bitrev"
    /\ LET r == BitReversePermute(a, call.log_n) IN
       /\ a' = r.a
       /\ panic' = r.panic
       /\ pc' = IF r.panic = "" THEN "butterfly" ELSE "panic"
    /\ UNCHANGED <<call, a_in, hist, parVars, gpu>>

SerialButterflies ==
    /\ pc = "butterfly"
    /\ LET r == Butterflies(a, call.omega, call.log_n) IN
       /\ a' = r.a
       /\ panic' = r.panic
       /\ pc' = IF r.panic = "" THEN "done" ELSE "panic"
       /\ hist' = IF r.panic = ""
                  THEN Append(hist, [a_in |-> a_in, omega |-> call.omega,
                                     log_n |-> call.log_n, a_out |-> r.a])
                  ELSE hist
    /\ UNCHANGED <<call, a_in, parVars, gpu>>

\* ------------------------------------------------------- parallel_ec_fft
Min(x, y) == IF x < y THEN x ELSE y
CellA(idx) == <<"a", idx>>
CellTmp(j, i) == <<"tmp", j, i>>

\* Worker::scope returns only after all the tasks executed in it have finished.
ScopeReturnsAtOnce(tasks) == TRUE

ScopeJoined(tasks) == \A t \in DOMAIN tasks : tasks[t].st = "done"

\* assert!(log_n >= log_threads);
ThreadsAssert(log_n, log_threads) == log_n >= log_threads

\* let omega_step = pow_vartime(omega, &[(j as u64) << log_new_n]);
OmegaStepNoShift(omega, j, log_new_n) == pow_vartime(omega, <<j>>)

OmegaStep(omega, j, log_new_n) == pow_vartime(omega, <<j * Pow2(log_new_n)>>)

\* let omega_j = pow_vartime(omega, &[j as u64]);
OmegaJ(omega, j) == pow_vartime(omega, <<j>>)

\* i + (s << log_new_n), before it is reduced mod 1 << log_n
RawIdxShiftsSum(i, s, log_new_n) == (i + s) * Pow2(log_new_n)

RawIdx(i, s, log_new_n) == i + s * Pow2(log_new_n)

\* for s in 0..num_threads { idx = ...; t = a[idx]; t *= elt; *tmp += t;
\*                           elt *= omega_step }
RECURSIVE ShuffleInner(_, _, _, _, _, _)
ShuffleInner(r, s, i, j, c, buf) ==
    IF s >= Pow2(c.log_threads) THEN r
    ELSE LET raw == RawIdx(i, s, c.log_n - c.log_threads)
             idx == raw % Pow2(c.log_n)
             t == Mul(buf[idx], r.elt)
         IN  CHOOSE out \in
                 {ShuffleInner(nxt, s + 1, i, j, c, buf) : nxt \in
                     {[val |-> Add(r.val, t),
                       elt |-> Mul(r.elt, OmegaStep(c.omega, j, c.log_n - c.log_threads)),
                       rd |-> r.rd \cup {CellA(idx)},
                       wrapped |-> r.wrapped \/ raw >= Pow2(c.log_n)]}} : TRUE

\* Entry of parallel_ec_fft: the assertion, the sub-buffers, new_omega, and the
\* tasks of the first scope.
CallParallel ==
    /\ pc = "idle"
    /\ \E log_n \in 0..MaxLogN : \E buf \in Buffers(Pow2(log_n)) :
       \E omega \in RootsOfUnity(Pow2(log_n)) :
       \E log_threads \in 0..(TestLogThreadsEnd - 1) :
          LET num_threads == Pow2(log_threads)
              okay == ThreadsAssert(log_n, log_threads)
          IN
          /\ call' = [fn |-> "parallel", omega |-> omega, log_n |-> log_n,
                      log_threads |-> log_threads, chunk |-> 0]
          /\ a' = buf
          /\ a_in' = buf
          /\ IF okay
             THEN /\ panic' = ""
                  /\ pc' = "scope1"
                  /\ tmp' = [j \in 0..(num_threads - 1) |->
                               [i \in 0..(Pow2(log_n - log_threads) - 1) |-> ZERO]]
                  /\ new_omega' = pow_vartime(omega, <<num_threads>>)
                  /\ task' = [j \in 0..(num_threads - 1) |->
                                [st |-> "shuffle", i |-> 0, elt |-> ONE,
                                 rd |-> {}, wr |-> {}, wrapped |-> FALSE]]
             ELSE /\ panic' = "assert_threads"
                  /\ pc' = "panic"
                  /\ UNCHANGED <<tmp, new_omega, task>>
          /\ UNCHANGED <<hist, scat, gpu>>

\* One pass of task j's outer loop: for (i, tmp) in tmp.iter_mut().enumerate()
ShuffleStep(j) ==
    /\ pc = "scope1"
    /\ task[j].st = "shuffle"
    /\ LET i == task[j].i
           r == ShuffleInner([val |-> tmp[j][i], elt |-> task[j].elt,
                              rd |-> task[j].rd, wrapped |-> task[j].wrapped],
                             0, i, j, call, a)
           last == i + 1 = BufLen(tmp[j])
       IN
       /\ tmp' = [tmp EXCEPT ![j][i] = r.val]
       /\ task' = [task EXCEPT ![j] =
                      [st |-> IF last THEN "fft" ELSE "shuffle",
                       i |-> i + 1,
                       elt |-> Mul(r.elt, OmegaJ(call.omega, j)),
                       rd |-> r.rd \cup {CellTmp(j, i)},
                       wr |-> task[j].wr \cup {CellTmp(j, i)},
                       wrapped |-> r.wrapped]]
    /\ UNCHANGED <<pc, call, a, a_in, panic, hist, new_omega, scat, gpu>>

\* serial_ec_fft::<G>(tmp, &new_omega, log_new_n);
SubFft(j) ==
    /\ pc = "scope1"
    /\ task[j].st = "fft"
    /\ \E bld \in Builds :
       LET r == serial_ec_fft(tmp[j], new_omega, call.log_n - call.log_threads, bld)
           cells == {CellTmp(j, i) : i \in DOMAIN tmp[j]}
       IN
       /\ tmp' = [tmp EXCEPT ![j] = r.a]
       /\ task' = [task EXCEPT ![j].st = "done",
                               ![j].rd = @ \cup cells, ![j].wr = @ \cup cells]
       /\ panic' = r.panic
       /\ pc' = IF r.panic = "" THEN pc ELSE "panic"
    /\ UNCHANGED <<call, a, a_in, hist, new_omega, scat, gpu>>

\* for (idx, a) in a.chunks_mut(chunk).enumerate()
NumChunks(len, chunk) == (len + chunk - 1) \div chunk
ChunkLen(c, chunk, len) == Min(chunk, len - c * chunk)

\* The first scope has returned; worker.scope(a.len(), ..) picks the chunk size
\* and the second scope starts one task per chunk.
Scope1Join ==
    /\ pc = "scope1"
    /\ ScopeJoined(task)
    /\ pc' = "scope2"
    /\ \E chunk \in 1..BufLen(a) :
          /\ call' = [call EXCEPT !.chunk = chunk]
          /\ scat' = [c \in 0..(NumChunks(BufLen(a), chunk) - 1) |->
                        [st |-> "run", k |-> 0, rd |-> {}, wr |-> {}]]
    /\ UNCHANGED <<a, a_in, panic, hist, new_omega, tmp, task, gpu>>

\* let mut idx = idx * chunk;
ChunkStartNoScale(c, chunk) == c

ChunkStart(c, chunk) == c * chunk

\* idx & mask, mask = (1 << log_threads) - 1
MaskIdx(idx, log_threads) == idx % Pow2(log_threads)
\* idx >> log_threads
ShiftIdx(idx, log_threads) == idx \div Pow2(log_threads)

\* One element of chunk c: *a = tmp[idx & mask][idx >> log_threads]; idx += 1
ScatterStep(c) ==
    /\ pc = "scope2"
    /\ scat[c].st = "run"
    /\ LET k == scat[c].k
           pos == c * call.chunk + k
           idx == ChunkStart(c, call.chunk) + k
           row == MaskIdx(idx, call.log_threads)
           col == ShiftIdx(idx, call.log_threads)
           inb == row \in DOMAIN tmp /\ col \in DOMAIN tmp[row]
           last == k + 1 = ChunkLen(c, call.chunk, BufLen(a))
       IN
       IF inb
       THEN /\ a' = [a EXCEPT ![pos] = tmp[row][col]]
            /\ scat' = [scat EXCEPT ![c] =
                          [st |-> IF last THEN "done" ELSE "run",
                           k |-> k + 1,
                           rd |-> scat[c].rd \cup {CellTmp(row, col)},
                           wr |-> scat[c].wr \cup {CellA(pos)}]]
            /\ UNCHANGED <<pc, panic>>
       ELSE /\ pc' = "panic"
            /\ panic' = "index"
            /\ UNCHANGED <<a, scat>>
    /\ UNCHANGED <<call, a_in, hist, new_omega, tmp, task, gpu>>

\* The second scope has returned, and parallel_ec_fft with it.
Scope2Join ==
    /\ pc = "scope2"
    /\ ScopeJoined(scat)
    /\ pc' = "done"
    /\ UNCHANGED <<call, a, a_in, panic, hist, parVars, gpu>>

\* ------------------------------------------------------ radix_fftg_many
\* fn omega(num_coeffs): the root of unity of order 2^exp the tests transform with
RECURSIVE SquareTimes(_, _)
SquareTimes(w, n) == IF n = 0 THEN w ELSE SquareTimes(Square(w), n - 1)
TestOmega(log_n) == SquareTimes(TWO_ADIC_ROOT_OF_UNITY, TWO_ADICITY - log_n)

\* Coefficient buffers handed to the GPU.
GpuBuffers(n) == {[k \in 0..(n - 1) |-> (c * k + 1) % P] : c \in 1..2}

\* The twiddle table of a transform of size N: omega^0 .. omega^(N/2 - 1).
TwiddleTable(omega, log_n) ==
    [k \in 0..((Pow2(log_n) \div 2) - 1) |-> ModExp(omega, k)]

\* Round r of a transform of size 2^log_n: reads A, writes B; thread t of N/2
\* handles the pair (i0, i0 + half).
RadixRound(A, W, r, log_n) ==
    LET half == Pow2(log_n - r - 1) IN
    [i \in DOMAIN A |->
        IF (i \div half) % 2 = 0
        THEN Add(A[i], A[i + half])
        ELSE Mul(Sub(A[i - half], A[i]), W[(i % half) * Pow2(r)])]

\* The bit-reverse kernel.
GpuBitReverseSkipped(A, log_n) == A

GpuBitReverse(A, log_n) == [i \in DOMAIN A |-> A[bitreverse(i, log_n).lo]]

\* Transform i of a batch runs on device i mod K.
DeviceOf(i, K) == i % K

IdleDevice(first) == [cur |-> first, stage |-> "upload", r |-> 0,
                      A |-> EmptyBuf, W |-> EmptyBuf]

\* radix_fftg_many(buffers, omegas, log_ns) on K devices.
CallGpu ==
    /\ pc = "idle"
    /\ \E K \in 1..MaxDevices : \E M \in 1..MaxBatch :
       \E log_ns \in [1..M -> 0..MaxLogN] :
       \E bufs \in [1..M -> UNION {GpuBuffers(Pow2(l)) : l \in 0..MaxLogN}] :
          /\ \A i \in 1..M : BufLen(bufs[i]) = Pow2(log_ns[i])
          /\ gpu' = [k |-> K, ins |-> bufs, bufs |-> bufs, log_ns |-> log_ns,
                     omegas |-> [i \in 1..M |-> TestOmega(log_ns[i])],
                     dev |-> [d \in 0..(K - 1) |-> IdleDevice(d + 1)]]
          /\ call' = [fn |-> "gpu"]
          /\ pc' = "gpu"
    /\ UNCHANGED <<a, a_in, panic, hist, parVars>>

GpuStep(d, nxt) ==
    /\ gpu' = [gpu EXCEPT !.dev[d] = nxt]
    /\ UNCHANGED <<pc, call, a, a_in, panic, hist, parVars>>

\* Device d uploads the coefficients of its next transform and fills the twiddles.
GpuUpload(d) ==
    /\ pc = "gpu"
    /\ LET s == gpu.dev[d] IN
       /\ s.stage = "upload"
       /\ s.cur <= Len(gpu.bufs)
       /\ GpuStep(d, [s EXCEPT !.A = gpu.bufs[s.cur],
                               !.W = TwiddleTable(gpu.omegas[s.cur], gpu.log_ns[s.cur]),
                               !.r = 0,
                               !.stage = IF gpu.log_ns[s.cur] = 0 THEN "bitrev"
                                         ELSE "round"])

GpuRound(d) ==
    /\ pc = "gpu"
    /\ LET s == gpu.dev[d] IN
       /\ s.stage = "round"
       /\ GpuStep(d, [s EXCEPT !.A = RadixRound(s.A, s.W, s.r, gpu.log_ns[s.cur]),
                               !.r = s.r + 1,
                               !.stage = IF s.r + 1 = gpu.log_ns[s.cur] THEN "bitrev"
                                         ELSE "round"])

GpuReverse(d) ==
    /\ pc = "gpu"
    /\ LET s == gpu.dev[d] IN
       /\ s.stage = "bitrev"
       /\ GpuStep(d, [s EXCEPT !.A = GpuBitReverse(s.A, gpu.log_ns[s.cur]),
                               !.stage = "read"])

\* Device d reads the result back into the host buffer and takes its next transform.
GpuReadback(d) ==
    /\ pc = "gpu"
    /\ LET s == gpu.dev[d] IN
       /\ s.stage = "read"
       /\ gpu' = [gpu EXCEPT !.bufs[s.cur] = s.A,
                             !.dev[d] = IdleDevice(s.cur + gpu.k)]
    /\ UNCHANGED <<pc, call, a, a_in, panic, hist, parVars>>

\* Every device has run all its transforms: the call returns.
GpuReturn ==
    /\ pc = "gpu"
    /\ \A d \in DOMAIN gpu.dev :
          gpu.dev[d].stage = "upload" /\ gpu.dev[d].cur > Len(gpu.bufs)
    /\ pc' = "done"
    /\ UNCHANGED <<call, a, a_in, panic, hist, parVars, gpu>>

GpuDevices == \E d \in 0..(MaxDevices - 1) :
    d \in DOMAIN gpu.dev /\ (GpuUpload(d) \/ GpuRound(d) \/ GpuReverse(d) \/ GpuReadback(d))

Shuffle == \E j \in DOMAIN task : ShuffleStep(j)
SubFfts == \E j \in DOMAIN task : SubFft(j)
Scatter == \E c \in DOMAIN scat : ScatterStep(c)

Next ==
    \/ CallSerial \/ CallSerialAgain \/ SerialBitReverse \/ SerialButterflies
    \/ CallParallel \/ Shuffle \/ SubFfts \/ Scope1Join \/ Scatter \/ Scope2Join
    \/ CallGpu \/ GpuDevices \/ GpuReturn

Spec == Init /\ [][Next]_vars

\* The pool runs the tasks it was given: a task that can step is eventually stepped.
ParallelProgress == Shuffle \/ SubFfts \/ Scope1Join \/ Scatter \/ Scope2Join
\* The pool runs every task it was handed and a scope returns once its tasks
\* have finished: no step of a task or of a join stays possible forever untaken.
FairSpec == Init /\ [][Next]_vars /\ WF_vars(ParallelProgress)

\* ----------------------------------------------------------------- claims
RECURSIVE SumTo(_, _)
SumTo(f, n) == IF n = 0 THEN 0 ELSE Add(f[n - 1], SumTo(f, n - 1))
\* sum over j in [0, N) of w^(i*j) * b[j]
Dft(b, w, i) == SumTo([j \in DOMAIN b |-> Mul(ModExp(w, i * j), b[j])], BufLen(b))
Scaled(c, b) == [k \in DOMAIN b |-> Mul(c % P, b[k])]
InContract(len, log_n) == log_n < U32Bits - 1 /\ len = Pow2(log_n)
SerialDone == pc = "done" /\ call.fn = "serial"
ParallelDone == pc = "done" /\ call.fn = "parallel"
ParallelRunning == call.fn = "parallel" /\ pc \in {"scope1", "scope2", "done"}
NumThreads == Pow2(call.log_threads)
LogNewN == call.log_n - call.log_threads

\* C1: when parallel_ec_fft returns, with log_threads <= log_n and a primitive
\* 2^log_n-th root omega, the buffer equals elementwise what serial_ec_fft leaves
\* on a copy of the input.
C1_ParallelEqualsSerial ==
    (ParallelDone /\ IsPrimitiveRoot(call.omega, BufLen(a_in)))
        => LET r == serial_ec_fft(a_in, call.omega, call.log_n, "release") IN
           r.panic = "" /\ a = r.a

C1_Witness ==
    /\ ParallelDone /\ IsPrimitiveRoot(call.omega, BufLen(a_in))
    /\ call.log_n = 2 /\ call.log_threads = 1 /\ a # a_in

\* C2: serial_ec_fft leaves a[i] = sum_j omega^(i*j) * a_in[j] for every i, in
\* natural order, for every length 2^log_n (log_n = 0 and 1 included) and primitive
\* root omega.
C2_SerialComputesDft ==
    (SerialDone /\ IsPrimitiveRoot(call.omega, BufLen(a_in)))
        => /\ BufLen(a) = Pow2(call.log_n)
           /\ \A i \in DOMAIN a : a[i] = Dft(a_in, call.omega, i)

C2_Witness ==
    /\ SerialDone /\ IsPrimitiveRoot(call.omega, BufLen(a_in))
    /\ call.log_n = 2 /\ a # a_in

\* C3: serial_ec_fft with omega and then with omega^-1 on the result leaves
\* N * buf elementwise.
C3_RoundTrip ==
    (SerialDone /\ Len(hist) >= 2)
        => LET h1 == hist[Len(hist) - 1]
               h2 == hist[Len(hist)]
               N == BufLen(h1.a_in)
           IN  (IsPrimitiveRoot(h1.omega, N) /\ h2.omega = Inverse(h1.omega))
                   => a = Scaled(N, h1.a_in)

C3_Witness ==
    /\ SerialDone /\ Len(hist) = 2 /\ call.log_n = 2
    /\ IsPrimitiveRoot(hist[1].omega, 4) /\ hist[2].omega = Inverse(hist[1].omega)
    /\ hist[1].a_out # hist[1].a_in

\* C4: when radix_fftg_many returns, every buffer of the batch equals the CPU
\* reference transform of that buffer alone, whatever the number of devices and
\* the rest of the batch.
C4_GpuMatchesCpu ==
    (pc = "done" /\ call.fn = "gpu")
        => \A i \in DOMAIN gpu.bufs :
              LET r == serial_ec_fft(gpu.ins[i], gpu.omegas[i], gpu.log_ns[i], "release")
              IN  r.panic = "" /\ gpu.bufs[i] = r.a

C4_Witness ==
    /\ pc = "done" /\ call.fn = "gpu" /\ gpu.k = 2 /\ Len(gpu.bufs) = 2
    /\ gpu.log_ns[1] = 2 /\ gpu.log_ns[2] = 1 /\ gpu.bufs[1] # gpu.ins[1]

\* C5: a call of serial_ec_fft with a.len() # 2^log_n fails at the length
\* assertion, with the buffer as it was handed in.
C5_LengthMismatchFailsAtAssertion ==
    (call.fn = "serial" /\ ~InContract(BufLen(a_in), call.log_n))
        => /\ pc = "panic"
           /\ panic \in {"assert_len", "overflow"}
           /\ a = a_in

\* C6: parallel_ec_fft accepts a call only when 2^log_n > 2^log_threads; a call
\* with log_threads >= log_n is rejected by the assertion before a sub-buffer is
\* allocated or a task executed.
C6_RejectsThreadsNotBelowItems ==
    (call.fn = "parallel" /\ call.log_threads >= call.log_n)
        => /\ pc = "panic"
           /\ panic = "assert_threads"
           /\ tmp = <<>>
           /\ task = <<>>

\* C7: bitreverse(_, l) is an involutive permutation of [0, 2^l), and the swap
\* loop of serial_ec_fft leaves a[k] = a_in[bitreverse(k, log_n)] for every k:
\* stated of every call whose length assertion has passed.
BelowPow2(u, l) == l >= U32Bits \/ (u.hi = 0 /\ (l = U32Bits - 1 \/ u.lo < Pow2(l)))
BitReverseInvolutive(b, l) ==
    \A k \in DOMAIN b :
        LET rk == bitreverse(k, l) IN
        /\ BelowPow2(rk, l)
        /\ rk.hi = 0 => bitreverse(rk.lo, l) = U32(k)
SwapLoopPermutes(b_in, b, l) ==
    \A k \in DOMAIN b :
        LET rk == bitreverse(k, l) IN
        rk.hi = 0 /\ rk.lo \in DOMAIN b_in /\ b[k] = b_in[rk.lo]
C7_BitReverseInvolution ==
    (call.fn = "serial" /\ pc \in {"bitrev", "butterfly"})
        => /\ BitReverseInvolutive(a_in, call.log_n)
           /\ pc = "butterfly" => SwapLoopPermutes(a_in, a, call.log_n)

\* C7 within the contract of serial_ec_fft (a.len() = 2^log_n, log_n below the
\* width of u32): there the involution and the permutation hold.
C7_WithinContract ==
    (call.fn = "serial" /\ pc \in {"bitrev", "butterfly"}
        /\ InContract(BufLen(a_in), call.log_n))
        => /\ BitReverseInvolutive(a_in, call.log_n)
           /\ pc = "butterfly" => SwapLoopPermutes(a_in, a, call.log_n)

C7_Witness ==
    /\ call.fn = "serial" /\ pc = "butterfly" /\ call.log_n = 2 /\ a # a_in

\* C8: no task of the second scope reads a sub-buffer before every task of the
\* first scope has finished; parallel_ec_fft returns only after every task of the
\* second scope has finished; and under fair scheduling of the tasks an accepted
\* call returns.
ScatterStarted == \E c \in DOMAIN scat : scat[c].rd # {}
C8_PhasesOrdered ==
    /\ [](ScatterStarted => \A j \in DOMAIN task : task[j].st = "done")
    /\ [](ParallelDone => /\ \A j \in DOMAIN task : task[j].st = "done"
                          /\ scat # <<>>
                          /\ \A c \in DOMAIN scat : scat[c].st = "done")
    /\ ((call.fn = "parallel" /\ pc = "scope1") ~> ParallelDone)

C8_Witness ==
    /\ call.fn = "parallel" /\ pc = "scope2" /\ call.log_threads = 1
    /\ \E c \in DOMAIN scat : scat[c].rd # {} /\ scat[c].st = "run"
    /\ \E c \in DOMAIN scat : scat[c].rd = {}

\* C9: in each scope no cell is written by two tasks or read by one task while
\* another writes it; task j of the first scope writes only sub-buffer j and reads
\* only a and sub-buffer j; a task of the second scope writes only its chunk of a
\* and reads only sub-buffers, in bounds; the chunks cover a exactly once; and the
\* buffer left is the same for every interleaving and chunk size.
Disjoint(tasks) ==
    \A t1 \in DOMAIN tasks : \A t2 \in DOMAIN tasks :
        t1 # t2 => tasks[t1].wr \cap (tasks[t2].wr \cup tasks[t2].rd) = {}
ACells == {CellA(i) : i \in DOMAIN a}
TmpCells(j) == {CellTmp(j, i) : i \in 0..(Pow2(LogNewN) - 1)}
ShuffleSum(j, i) ==
    SumTo([s \in 0..(NumThreads - 1) |->
              Mul(a_in[i + s * Pow2(LogNewN)],
                  ModExp(call.omega, j * (i + s * Pow2(LogNewN))))], NumThreads)
ExpectedTmp ==
    [j \in 0..(NumThreads - 1) |->
        serial_ec_fft([i \in 0..(Pow2(LogNewN) - 1) |-> ShuffleSum(j, i)],
                      ModExp(call.omega, NumThreads), LogNewN, "release").a]
C9_RaceFree ==
    ParallelRunning =>
        /\ Disjoint(task)
        /\ Disjoint(scat)
        /\ \A j \in DOMAIN task :
              task[j].wr \subseteq TmpCells(j) /\ task[j].rd \subseteq ACells \cup TmpCells(j)
        /\ \A c \in DOMAIN scat :
              /\ scat[c].wr \subseteq {CellA(i) : i \in (c * call.chunk)..(c * call.chunk + call.chunk - 1)}
              /\ scat[c].rd \subseteq UNION {TmpCells(j) : j \in DOMAIN tmp}
              /\ Cardinality(scat[c].wr) = scat[c].k
        /\ pc = "done" =>
              /\ UNION {scat[c].wr : c \in DOMAIN scat} = ACells
              /\ tmp = ExpectedTmp
              /\ a = [idx \in DOMAIN a |-> ExpectedTmp[idx % NumThreads][idx \div NumThreads]]

C9_Witness ==
    /\ ParallelDone /\ call.log_n = 2 /\ call.log_threads = 1 /\ call.chunk = 3
    /\ a # a_in

\* C10: in the first scope, for omega with omega^N = 1: task j's running twiddle is
\* omega^(j*i) when it starts outer pass i; i + s*2^log_new_n never reaches N; when
\* the passes are over, sub_j[i] = sum_s a[i + s*2^log_new_n] *
\* omega^(j*(i + s*2^log_new_n)); and the sub-FFT's root is omega^T.
C10_ShuffleInvariant ==
    (ParallelRunning /\ ModExp(call.omega, BufLen(a_in)) = 1) =>
        /\ new_omega = ModExp(call.omega, NumThreads)
        /\ \A j \in DOMAIN task :
              /\ ~task[j].wrapped
              /\ task[j].st = "shuffle" => task[j].elt = ModExp(call.omega, j * task[j].i)
              /\ task[j].st = "fft" =>
                    \A i \in DOMAIN tmp[j] : tmp[j][i] = ShuffleSum(j, i)

C10_Witness ==
    /\ call.fn = "parallel" /\ pc = "scope1" /\ call.log_n = 2 /\ call.log_threads = 1
    /\ task[1].st = "fft" /\ task[0].st = "shuffle" /\ task[0].i = 1
    /\ call.omega # 1 /\ \E i \in DOMAIN tmp[1] : tmp[1][i] # 0
====
